---- MODULE Spec2Model ----
(***************************************************************************)
(* Model of databricks_cli/pipelines/api.py: PipelinesApi.deploy,          *)
(* PipelinesApi.delete and the LibraryObject conversions.                  *)
(*                                                                         *)
(* Paths are sequences of one-character strings, so that slicing           *)
(* (path[4:], path[5:]), startswith, urlsplit and splitext are computed    *)
(* the way the Python code computes them.                                  *)
(***************************************************************************)
EXTENDS Integers, Sequences, FiniteSets, TLC

\* ------------------------------------------------------------- bounds
\* Longest library list of an input specification.
MaxLibs == 2
\* Number of calls (deploy or delete) one behaviour makes on the same spec.
MaxCalls == 2

\* ------------------------------------------------- string primitives
\* s[n:] of Python, n counted from 0.
DropPrefix(s, n) == IF n >= Len(s) THEN <<>> ELSE SubSeq(s, n + 1, Len(s))

\* s.startswith(p)
StartsWith(s, p) == Len(s) >= Len(p) /\ SubSeq(s, 1, Len(p)) = p

UpperCase == {"A","B","C","D","E","F","G","H","I","J","K","L","M",
              "N","O","P","Q","R","S","T","U","V","W","X","Y","Z"}
LowerCase == {"a","b","c","d","e","f","g","h","i","j","k","l","m",
              "n","o","p","q","r","s","t","u","v","w","x","y","z"}
Digits == {"0","1","2","3","4","5","6","7","8","9"}

\* urllib.parse.scheme_chars
scheme_chars == UpperCase \cup LowerCase \cup Digits \cup {"+", "-", "."}

LowerChar(c) ==
    CASE c = "F" -> "f" [] c = "I" -> "i" [] c = "L" -> "l" [] c = "E" -> "e"
      [] c = "D" -> "d" [] c = "B" -> "b" [] c = "S" -> "s" [] OTHER -> c

\* str.lower()
Lower(s) == [i \in 1..Len(s) |-> LowerChar(s[i])]

\* str.find(c) + 1: position of the first c, 0 when there is none.
FindFirst(s, c) ==
    IF \E i \in 1..Len(s) : s[i] = c
    THEN CHOOSE i \in 1..Len(s) : s[i] = c /\ \A j \in 1..(i - 1) : s[j] # c
    ELSE 0

\* str.rfind(c) + 1: position of the last c, 0 when there is none.
FindLast(s, c) ==
    IF \E i \in 1..Len(s) : s[i] = c
    THEN CHOOSE i \in 1..Len(s) : s[i] = c /\ \A j \in (i + 1)..Len(s) : s[j] # c
    ELSE 0

\* urllib.parse.urlsplit(url).scheme: the text before the first ':' when it
\* is non-empty, starts with a letter and holds scheme characters only,
\* lower-cased; the empty string otherwise.
UrlScheme(url) ==
    LET i == FindFirst(url, ":") IN
    IF /\ i > 1
       /\ url[1] \in UpperCase \cup LowerCase
       /\ \A j \in 1..(i - 1) : url[j] \in scheme_chars
    THEN Lower(SubSeq(url, 1, i - 1))
    ELSE <<>>

\* os.path.splitext(p)[1]: from the last '.' of the final path segment, the
\* leading dots of that segment not counting.
SplitExt(p) ==
    LET sepIndex == FindLast(p, "/")
        dotIndex == FindLast(p, ".")
    IN  IF /\ dotIndex > sepIndex
           /\ \E k \in (sepIndex + 1)..(dotIndex - 1) : p[k] # "."
        THEN SubSeq(p, dotIndex, Len(p))
        ELSE <<>>

\* ------------------------------------------------------ path universe
base_pipelines_dir ==
    <<"d","b","f","s",":","/","p","i","p","e","l","i","n","e","s","/","c","o","d","e","/">>

AbsJar == <<"/","t","m","p","/","a",".","j","a","r">>
FileUriJar == <<"f","i","l","e",":","/","/","/","t","m","p","/","a",".","j","a","r">>
CapsUriJar == <<"F","I","L","E",":","/","l","i","b","/","b",".","j","a","r">>
RelNoExt == <<"l","i","b","/","c">>
FourSlashJar == <<"f","i","l","e",":","/","/","/","/","t","m","p","/","a",".","j","a","r">>
DbfsFourJar == <<"d","b","f","s",":","/","/","/","/","l","i","b","/","d",".","j","a","r">>

LibJar == <<"/","l","i","b","/","b",".","j","a","r">>

\* A library of the input specification: a single-key mapping kind -> path.
Library(kind, path) == kind :> path

LibraryUniverse ==
    { Library("jar", AbsJar), Library("jar", FileUriJar), Library("jar", CapsUriJar),
      Library("jar", RelNoExt), Library("jar", FourSlashJar), Library("jar", DbfsFourJar),
      Library("egg", FourSlashJar), Library("whl", AbsJar) }

RECURSIVE SeqsUpTo(_, _)
SeqsUpTo(S, n) ==
    IF n = 0 THEN { <<>> }
    ELSE LET shorter == SeqsUpTo(S, n - 1)
         IN  shorter \cup { Append(s, x) : s \in { t \in shorter : Len(t) = n - 1 }, x \in S }

\* ------------------------------------------------- local file system
\* open(path, 'rb') resolves runs of slashes to a single one.
RECURSIVE ResolvePath(_)
ResolvePath(p) ==
    IF Len(p) < 2 THEN p
    ELSE IF p[1] = "/" /\ p[2] = "/" THEN ResolvePath(Tail(p))
    ELSE <<p[1]>> \o ResolvePath(Tail(p))

\* Two local file systems: in the first the two jars hold the same bytes,
\* in the second they differ and lib/c is an empty file.
FileSystems ==
    { (AbsJar :> <<1>>) @@ (LibJar :> <<1>>),
      (AbsJar :> <<1>>) @@ (LibJar :> <<2>>) @@ (RelNoExt :> <<>>) }

\* hashlib.sha1(bytes).hexdigest() on the byte strings of the model.
Sha1Hex(bytes) ==
    CASE bytes = <<>> ->
           <<"d","a","3","9","a","3","e","e","5","e","6","b","4","b","0","d","3","2","5","5",
             "b","f","e","f","9","5","6","0","1","8","9","0","a","f","d","8","0","7","0","9">>
      [] bytes = <<1>> ->
           <<"b","f","8","b","4","5","3","0","d","8","d","2","4","6","d","d","7","4","a","c",
             "5","3","a","1","3","4","7","1","b","b","a","1","7","9","4","1","d","f","f","7">>
      [] bytes = <<2>> ->
           <<"c","4","e","a","2","1","b","b","3","6","5","b","b","e","e","a","f","5","f","2",
             "c","6","5","4","8","8","3","e","5","6","d","1","1","e","4","3","c","4","4","e">>

\* ---------------------------------------------------- LibraryObject
LibraryObject(lib_type, lib_path) == [lib_type |-> lib_type, path |-> lib_path]

\* LibraryObject.convert_from_libraries
RECURSIVE convert_from_libraries(_)
convert_from_libraries(libraries) ==
    IF libraries = <<>> THEN <<>>
    ELSE LET library == Head(libraries)
             lib_type == CHOOSE k \in DOMAIN library : TRUE
         IN  <<LibraryObject(lib_type, library[lib_type])>>
                 \o convert_from_libraries(Tail(libraries))

\* LibraryObject.convert_to_libraries
RECURSIVE convert_to_libraries(_)
convert_to_libraries(lib_objects) ==
    IF lib_objects = <<>> THEN <<>>
    ELSE <<Head(lib_objects).lib_type :> Head(lib_objects).path>>
             \o convert_to_libraries(Tail(lib_objects))


\* ------------------------------------------------------------- state
VARIABLES
    spec,               \* the caller's specification mapping (deploy mutates it)
    files,              \* local file system: resolved path -> bytes
    store,              \* remote object store: the absolute paths that exist
    pc,                 \* position of the call in progress
    op,                 \* "deploy", "delete" or "none"
    local_lib_objects,  \* deploy's locals
    rest_lib_objects,
    remote_lib_objects,
    upload_files,
    error,              \* the exception that ended the call
    hashed,             \* local paths opened by _get_hashed_path, this call
    queries,            \* paths asked of file_exists, this call
    puts,               \* put_file calls, this call
    requests,           \* requests handed to the transport, this call
    calls,              \* calls started so far
    entry,              \* libraries and store contents when the call started
    resolved,           \* the configuration the call resolved, if it did
    prev                \* outcome of the previous call

vars == <<spec, files, store, pc, op, local_lib_objects, rest_lib_objects,
          remote_lib_objects, upload_files, error, hashed, queries, puts,
          requests, calls, entry, resolved, prev>>

NoError == [type |-> "none", msg |-> "", path |-> <<>>]
Raise(type, msg, path) == [type |-> type, msg |-> msg, path |-> path]

NoCall == [op |-> "none", error |-> NoError, libraries |-> <<>>,
           remote |-> <<>>, rest |-> <<>>, puts |-> <<>>]

\* spec.get('libraries', [])
SpecLibraries(s) == IF "libraries" \in DOMAIN s THEN s["libraries"] ELSE <<>>

\* ------------------------------------------- classification (75-93)
file_scheme == <<"f","i","l","e">>

\* Faulty variant of IsBareJar: the kind of the library is not looked at.
IsBareAnyKind(lib_object, uri_scheme) == uri_scheme = <<>>

\* line 85: lib_object.lib_type == 'jar' and uri_scheme == ''
IsBareJar(lib_object, uri_scheme) ==
    lib_object.lib_type = "jar" /\ uri_scheme = <<>>

\* line 87: lib_object.lib_type == 'jar' and uri_scheme.lower() == 'file'
IsFileJar(lib_object, uri_scheme) ==
    lib_object.lib_type = "jar" /\ Lower(uri_scheme) = file_scheme

\* Faulty variant of IsInvalidFileUri: the slice starts one character late.
IsInvalidFileUriFromFive(path) ==
    StartsWith(DropPrefix(path, 5), <<":","/","/","/","/">>)

\* line 88: lib_object.path[4:].startswith(':////')
IsInvalidFileUri(path) ==
    StartsWith(DropPrefix(path, 4), <<":","/","/","/","/">>)

\* line 90: lib_object.path[5:]
ExtractLocalPath(path) == DropPrefix(path, 5)

RECURSIVE PartitionLoop(_, _, _)
PartitionLoop(lib_objects, local, rest) ==
    IF lib_objects = <<>>
    THEN [raised |-> FALSE, local |-> local, rest |-> rest]
    ELSE LET lib_object == Head(lib_objects)
             uri_scheme == UrlScheme(lib_object.path)
         IN  IF IsBareJar(lib_object, uri_scheme)
             THEN PartitionLoop(Tail(lib_objects), Append(local, lib_object), rest)
             ELSE IF IsFileJar(lib_object, uri_scheme)
             THEN IF IsInvalidFileUri(lib_object.path)
                  THEN [raised |-> TRUE, local |-> <<>>, rest |-> <<>>]
                  ELSE PartitionLoop(Tail(lib_objects),
                           Append(local, LibraryObject(lib_object.lib_type,
                                                       ExtractLocalPath(lib_object.path))),
                           rest)
             ELSE PartitionLoop(Tail(lib_objects), local, Append(rest, lib_object))

_partition_libraries_and_extract_local_paths(lib_objects) ==
    PartitionLoop(lib_objects, <<>>, <<>>)

\* --------------------------------------------- remote path (95-116)
CanOpen(path) == ResolvePath(path) \in DOMAIN files

\* The value _get_hashed_path returns for a readable file.
_get_hashed_path(path) ==
    base_pipelines_dir \o Sha1Hex(files[ResolvePath(path)]) \o SplitExt(path)

\* Lines 53-55: list(map(...)) hashes the local objects in order and stops
\* at the first file that cannot be read.
RECURSIVE HashLoop(_, _, _)
HashLoop(llos, done, opened) ==
    IF llos = <<>>
    THEN [raised |-> FALSE, remote |-> done, opened |-> opened, path |-> <<>>]
    ELSE LET llo == Head(llos) IN
         IF ~CanOpen(llo.path)
         THEN [raised |-> TRUE, remote |-> <<>>,
               opened |-> Append(opened, llo.path), path |-> llo.path]
         ELSE HashLoop(Tail(llos),
                       Append(done, LibraryObject(llo.lib_type, _get_hashed_path(llo.path))),
                       Append(opened, llo.path))

\* -------------------------------------------- collaborators (30-32)
DbfsPath(absolute_path) == [absolute_path |-> absolute_path]

\* DbfsApi.file_exists
file_exists(dbfs_path) == dbfs_path.absolute_path \in store

\* ---------------------------------------------- upload plan (118-131)
\* zip(local_lib_objects, transformed_remote_lib_objects)
Zip(llos, rlos) ==
    [i \in 1..(IF Len(llos) < Len(rlos) THEN Len(llos) ELSE Len(rlos)) |->
        <<llos[i], LibraryObject(rlos[i].lib_type, DbfsPath(rlos[i].path))>>]

\* Faulty variant of NeedsUpload: every pair is uploaded.
NeedsUploadAlways(lo_tuple) == TRUE

\* Faulty variant of NeedsUpload: the filter's `not` is lost.
NeedsUploadInverted(lo_tuple) == file_exists(lo_tuple[2].path)

\* line 130: the filter's predicate
NeedsUpload(lo_tuple) == ~file_exists(lo_tuple[2].path)

_get_files_to_upload(llos, rlos) == SelectSeq(Zip(llos, rlos), NeedsUpload)

\* The file_exists calls the filter makes: one per zipped pair, in order.
ExistenceQueries(llos, rlos) ==
    [i \in 1..Len(Zip(llos, rlos)) |-> Zip(llos, rlos)[i][2].path.absolute_path]

\* ---------------------------------------------- credentials (133-151)
\* The configurations the profile lookup can return; present = FALSE is None.
Configs ==
    { [present |-> FALSE, is_valid |-> FALSE, is_valid_with_token |-> FALSE],
      [present |-> TRUE,  is_valid |-> FALSE, is_valid_with_token |-> FALSE],
      [present |-> TRUE,  is_valid |-> TRUE,  is_valid_with_token |-> TRUE],
      [present |-> TRUE,  is_valid |-> TRUE,  is_valid_with_token |-> FALSE] }

\* Faulty variant of ConfigInvalid: only a missing configuration is refused.
ConfigInvalidOnlyNone(config) == ~config.present

\* line 145
ConfigInvalid(config) == ~config.present \/ ~config.is_valid

\* lines 148-151
_get_credentials_for_request(config) ==
    IF config.is_valid_with_token
    THEN "token" :> "dapi"
    ELSE ("user" :> "u") @@ ("password" :> "pw")


\* DbfsApi.put_file(src, dbfs_path, overwrite): creating an object that
\* exists is refused unless overwrite is set; any upload may also fail in
\* the store or on the way to it.
PutOutcomes(dbfs_path, overwrite) ==
    IF dbfs_path.absolute_path \in store /\ ~overwrite THEN { FALSE } ELSE BOOLEAN

\* ------------------------------------------------------------ initial
PipelineIds == { "p1" }

InitialSpecs ==
    LET withLibs == { "libraries" :> libs : libs \in SeqsUpTo(LibraryUniverse, MaxLibs) }
        bodies   == withLibs \cup { <<>> }
    IN  bodies \cup { ("id" :> id) @@ b : id \in PipelineIds, b \in bodies }

\* Objects a previous deploy may have left in the store.
InitialObjects ==
    { base_pipelines_dir \o Sha1Hex(<<1>>) \o <<".","j","a","r">> }

Init ==
    /\ spec \in InitialSpecs
    /\ files \in FileSystems
    /\ store \in SUBSET InitialObjects
    /\ pc = "idle"
    /\ op = "none"
    /\ local_lib_objects = <<>>
    /\ rest_lib_objects = <<>>
    /\ remote_lib_objects = <<>>
    /\ upload_files = <<>>
    /\ error = NoError
    /\ hashed = <<>>
    /\ queries = <<>>
    /\ puts = <<>>
    /\ requests = <<>>
    /\ calls = 0
    /\ entry = [libraries |-> <<>>, store |-> {}]
    /\ resolved = {}
    /\ prev = NoCall

\* ------------------------------------------------------------- deploy
\* Lines 50-52: convert the libraries and partition them.
DeployPartition ==
    /\ pc = "idle"
    /\ calls < MaxCalls
    /\ LET lib_objects == convert_from_libraries(SpecLibraries(spec))
           parts == _partition_libraries_and_extract_local_paths(lib_objects)
       IN  /\ calls' = calls + 1
           /\ op' = "deploy"
           /\ entry' = [libraries |-> SpecLibraries(spec), store |-> store]
           /\ IF parts.raised
              THEN /\ pc' = "failed"
                   /\ error' = Raise("RuntimeError", "Invalid file uri scheme", <<>>)
                   /\ UNCHANGED <<local_lib_objects, rest_lib_objects>>
              ELSE /\ pc' = "partitioned"
                   /\ local_lib_objects' = parts.local
                   /\ rest_lib_objects' = parts.rest
                   /\ UNCHANGED error
    /\ UNCHANGED <<resolved, spec, files, store, remote_lib_objects, upload_files, hashed,
                   queries, puts, requests, prev>>

\* Lines 53-55: derive the remote object of every local object.
DeployHash ==
    /\ pc = "partitioned"
    /\ LET h == HashLoop(local_lib_objects, <<>>, <<>>)
       IN  /\ hashed' = h.opened
           /\ IF h.raised
              THEN /\ pc' = "failed"
                   /\ error' = Raise("RuntimeError", "while processing", h.path)
                   /\ UNCHANGED remote_lib_objects
              ELSE /\ pc' = "hashed"
                   /\ remote_lib_objects' = h.remote
                   /\ UNCHANGED error
    /\ UNCHANGED <<resolved, spec, files, store, op, local_lib_objects, rest_lib_objects,
                   upload_files, queries, puts, requests, calls, entry, prev>>

\* Line 56: the upload plan.
DeployPlan ==
    /\ pc = "hashed"
    /\ upload_files' = _get_files_to_upload(local_lib_objects, remote_lib_objects)
    /\ queries' = ExistenceQueries(local_lib_objects, remote_lib_objects)
    /\ pc' = "uploading"
    /\ UNCHANGED <<resolved, spec, files, store, op, local_lib_objects, rest_lib_objects,
                   remote_lib_objects, error, hashed, puts, requests, calls, entry, prev>>

\* Faulty variant of DeployUpload: the exception of put_file is swallowed and the
\* loop goes on.
DeployUploadKeepsGoing ==
    /\ pc = "uploading"
    /\ Len(puts) < Len(upload_files)
    /\ LET llo == upload_files[Len(puts) + 1][1]
           rlo == upload_files[Len(puts) + 1][2]
       IN  \E ok \in PutOutcomes(rlo.path, FALSE) :
              /\ puts' = Append(puts, [src |-> llo.path, dst |-> rlo.path.absolute_path,
                                       existed |-> file_exists(rlo.path), ok |-> ok])
              /\ store' = IF ok THEN store \cup { rlo.path.absolute_path } ELSE store
              /\ UNCHANGED <<pc, error>>
    /\ UNCHANGED <<resolved, spec, files, op, local_lib_objects, rest_lib_objects,
                   remote_lib_objects, upload_files, hashed, queries, requests,
                   calls, entry, prev>>

\* Lines 58-62: one iteration of the upload loop.
DeployUpload ==
    /\ pc = "uploading"
    /\ Len(puts) < Len(upload_files)
    /\ LET llo == upload_files[Len(puts) + 1][1]
           rlo == upload_files[Len(puts) + 1][2]
       IN  \E ok \in PutOutcomes(rlo.path, FALSE) :
              /\ puts' = Append(puts, [src |-> llo.path, dst |-> rlo.path.absolute_path,
                                       existed |-> file_exists(rlo.path), ok |-> ok])
              /\ IF ok
                 THEN /\ store' = store \cup { rlo.path.absolute_path }
                      /\ UNCHANGED <<pc, error>>
                 ELSE /\ pc' = "failed"
                      /\ error' = Raise("RuntimeError", "while uploading", llo.path)
                      /\ UNCHANGED store
    /\ UNCHANGED <<resolved, spec, files, op, local_lib_objects, rest_lib_objects,
                   remote_lib_objects, upload_files, hashed, queries, requests,
                   calls, entry, prev>>

\* Faulty variant of DeployRewrite: only the uploaded pairs are attached.
DeployRewriteUploadedOnly ==
    /\ pc = "uploading"
    /\ Len(puts) = Len(upload_files)
    /\ spec' = ("libraries" :>
                   convert_to_libraries(
                       rest_lib_objects \o
                       [i \in 1..Len(upload_files) |->
                           LibraryObject(upload_files[i][2].lib_type,
                                         upload_files[i][2].path.absolute_path)])) @@ spec
    /\ pc' = "rewritten"
    /\ UNCHANGED <<resolved, files, store, op, local_lib_objects, rest_lib_objects,
                   remote_lib_objects, upload_files, error, hashed, queries, puts,
                   requests, calls, entry, prev>>

\* Lines 64-65: spec['libraries'] is rewritten once the upload loop is over.
DeployRewrite ==
    /\ pc = "uploading"
    /\ Len(puts) = Len(upload_files)
    /\ spec' = ("libraries" :>
                   convert_to_libraries(rest_lib_objects \o remote_lib_objects)) @@ spec
    /\ pc' = "rewritten"
    /\ UNCHANGED <<resolved, files, store, op, local_lib_objects, rest_lib_objects,
                   remote_lib_objects, upload_files, error, hashed, queries, puts,
                   requests, calls, entry, prev>>

\* Line 66: the credentials of the request.
DeployCredentials ==
    /\ pc = "rewritten"
    /\ \E cfg \in Configs :
          /\ resolved' = { cfg }
          /\ IF ConfigInvalid(cfg)
             THEN /\ pc' = "failed"
                  /\ error' = Raise("InvalidConfigurationError", "for_profile", <<>>)
                  /\ UNCHANGED spec
             ELSE /\ pc' = "credentialed"
                  /\ spec' = ("credentials" :> _get_credentials_for_request(cfg)) @@ spec
                  /\ UNCHANGED error
    /\ UNCHANGED <<files, store, op, local_lib_objects, rest_lib_objects,
                   remote_lib_objects, upload_files, hashed, queries, puts,
                   requests, calls, entry, prev>>

\* Lines 67-70: the PUT; '/pipelines/{}'.format(spec['id']) is evaluated
\* before perform_query is called.
DeploySubmit ==
    /\ pc = "credentialed"
    /\ IF "id" \notin DOMAIN spec
       THEN /\ pc' = "failed"
            /\ error' = Raise("KeyError", "id", <<>>)
            /\ UNCHANGED requests
       ELSE /\ requests' = Append(requests, [method |-> "PUT",
                                             id |-> spec["id"], data |-> spec])
            /\ \E ok \in BOOLEAN :
                  IF ok
                  THEN pc' = "done" /\ UNCHANGED error
                  ELSE pc' = "failed" /\ error' = Raise("TransportError", "PUT", <<>>)
    /\ UNCHANGED <<resolved, spec, files, store, op, local_lib_objects, rest_lib_objects,
                   remote_lib_objects, upload_files, hashed, queries, puts,
                   calls, entry, prev>>

\* ------------------------------------------------------------- delete
\* Line 73: the credentials are an argument of client.delete, so they are
\* resolved before the delete call is made.
Delete ==
    /\ pc = "idle"
    /\ calls < MaxCalls
    /\ calls' = calls + 1
    /\ op' = "delete"
    /\ entry' = [libraries |-> SpecLibraries(spec), store |-> store]
    /\ \E cfg \in Configs, pipeline_id \in PipelineIds :
          /\ resolved' = { cfg }
          /\ IF ConfigInvalid(cfg)
             THEN /\ pc' = "failed"
                  /\ error' = Raise("InvalidConfigurationError", "for_profile", <<>>)
                  /\ UNCHANGED requests
             ELSE /\ requests' = Append(requests,
                                        [method |-> "DELETE",
                                         id |-> pipeline_id,
                                         data |-> _get_credentials_for_request(cfg)])
                  /\ \E ok \in BOOLEAN :
                        IF ok
                        THEN pc' = "done" /\ UNCHANGED error
                        ELSE pc' = "failed" /\ error' = Raise("TransportError", "DELETE", <<>>)
    /\ UNCHANGED <<spec, files, store, local_lib_objects, rest_lib_objects,
                   remote_lib_objects, upload_files, hashed, queries, puts, prev>>

\* The call returns (or its exception reaches the caller), who may call
\* again with the same specification object.
Return ==
    /\ pc \in { "done", "failed" }
    /\ calls < MaxCalls
    /\ prev' = [op |-> op, error |-> error, libraries |-> entry.libraries,
                remote |-> remote_lib_objects, rest |-> rest_lib_objects, puts |-> puts]
    /\ pc' = "idle"
    /\ op' = "none"
    /\ local_lib_objects' = <<>>
    /\ rest_lib_objects' = <<>>
    /\ remote_lib_objects' = <<>>
    /\ upload_files' = <<>>
    /\ error' = NoError
    /\ hashed' = <<>>
    /\ queries' = <<>>
    /\ puts' = <<>>
    /\ resolved' = {}
    /\ requests' = <<>>
    /\ UNCHANGED <<spec, files, store, calls, entry>>

Next ==
    \/ DeployPartition
    \/ DeployHash
    \/ DeployPlan
    \/ DeployUpload
    \/ DeployRewrite
    \/ DeployCredentials
    \/ DeploySubmit
    \/ Delete
    \/ Return

Spec == Init /\ [][Next]_vars


\* ==================================================== properties
\* The library objects of the specification the call in progress was given.
EntryObjects == convert_from_libraries(entry.libraries)

\* A reference is local when it is a jar whose path has no scheme or the
\* scheme file.
IsLocalRef(lo) ==
    lo.lib_type = "jar" /\ UrlScheme(lo.path) \in { <<>>, file_scheme }

IsPassThroughRef(lo) == ~IsLocalRef(lo)

\* The file system path a local reference names: the path itself, or the
\* file URI without its scheme and colon.
LocalPathOf(lo) ==
    IF UrlScheme(lo.path) = <<>> THEN lo.path
    ELSE DropPrefix(lo.path, Len(file_scheme) + 1)

\* A path that, from index 4 onward, starts with ':////'.
ColonFourSlashes(path) ==
    Len(path) >= 9 /\ \A k \in 1..5 : path[4 + k] = <<":","/","/","/","/">>[k]

InvalidPathError == Raise("RuntimeError", "Invalid file uri scheme", <<>>)

\* The deploy in progress got past classification, hashing, planning.
Classified == op = "deploy" /\ ~(pc = "failed" /\ error = InvalidPathError)
Derived == Classified /\ pc # "partitioned"
                         /\ ~(pc = "failed" /\ error.msg = "while processing")
Planned == Derived /\ pc # "hashed"

\* The requests the call in progress handed to the transport.
IssuedByCall == 1..Len(requests)

\* C7 (classification partition): after a successful classification the
\* remote list is exactly the input references that are not local, unchanged
\* and in input order; the local list holds, in input order, one entry per
\* local input reference (a jar with no scheme or scheme file), of the same
\* kind, whose path is the input path (bare) or a suffix of it (file URI);
\* so no reference is dropped or duplicated.
C7_ClassificationPartition ==
    Classified =>
        LET locals == SelectSeq(EntryObjects, IsLocalRef) IN
        /\ rest_lib_objects = SelectSeq(EntryObjects, IsPassThroughRef)
        /\ Len(local_lib_objects) = Len(locals)
        /\ Len(local_lib_objects) + Len(rest_lib_objects) = Len(EntryObjects)
        /\ \A i \in 1..Len(locals) :
              /\ local_lib_objects[i].lib_type = locals[i].lib_type
              /\ IF UrlScheme(locals[i].path) = <<>>
                 THEN local_lib_objects[i].path = locals[i].path
                 ELSE \E n \in 1..Len(locals[i].path) :
                         local_lib_objects[i].path = DropPrefix(locals[i].path, n)

\* A classification of a file URI jar written in capitals and a non-jar
\* reference with a bare path: the first is local, the second passed through.
C7_Witness ==
    /\ Classified
    /\ EntryObjects = <<LibraryObject("jar", CapsUriJar), LibraryObject("whl", AbsJar)>>
    /\ local_lib_objects = <<LibraryObject("jar", LibJar)>>
    /\ rest_lib_objects = <<LibraryObject("whl", AbsJar)>>

\* C4 (file: stripping), as claimed: a jar given as a file:// URI is
\* classified local with the URI's `file://` prefix removed, so that
\* file:///tmp/a.jar becomes exactly /tmp/a.jar.
C4_FileUriStripped ==
    (Classified /\ entry.libraries = <<Library("jar", FileUriJar)>>) =>
        local_lib_objects = <<LibraryObject("jar", AbsJar)>>

\* C5 (malformed scheme rejection), as claimed: a library list holding any
\* reference whose path from index 4 onward starts with ':////' is rejected
\* with the invalid-path error, whatever the reference's kind and scheme.
C5_AnyColonFourSlashesRejected ==
    (op = "deploy" /\ \E i \in 1..Len(EntryObjects) :
                         ColonFourSlashes(EntryObjects[i].path))
        => (pc = "failed" /\ error = InvalidPathError)

\* A jar with scheme file whose path from index 4 onward starts with ':////'.
MalformedFileJar(lo) ==
    /\ lo.lib_type = "jar"
    /\ UrlScheme(lo.path) = file_scheme
    /\ ColonFourSlashes(lo.path)

\* C5, amended: a library list holding a jar reference with scheme file whose
\* path from index 4 onward starts with ':////' is rejected with the
\* invalid-path error before any file is hashed, any existence query is made
\* or anything is uploaded.
C5_MalformedFileJarRejected ==
    (op = "deploy" /\ \E i \in 1..Len(EntryObjects) : MalformedFileJar(EntryObjects[i]))
        => /\ pc = "failed"
           /\ error = InvalidPathError
           /\ hashed = <<>>
           /\ queries = <<>>
           /\ puts = <<>>
           /\ store = entry.store
           /\ IssuedByCall = {}

\* A rejected list whose first reference is a readable local jar absent from
\* the store: hashing and an upload would have happened had the check come
\* later.
C5_Witness ==
    /\ op = "deploy"
    /\ pc = "failed"
    /\ error = InvalidPathError
    /\ Len(EntryObjects) = 2
    /\ EntryObjects[1] = LibraryObject("jar", AbsJar)
    /\ MalformedFileJar(EntryObjects[2])
    /\ store = {}

\* C3 (upload skip on existing content): the plan is the order-preserving
\* subsequence of the (local, derived remote) pairs whose remote path the
\* store did not hold when it was asked; one existence query is made per
\* local reference (none when there is none); and no put_file is issued for
\* a path the store reported as existing.
C3_UploadSkipOnExisting ==
    Planned =>
        LET pairs == [i \in 1..Len(local_lib_objects) |->
                        <<local_lib_objects[i],
                          LibraryObject(local_lib_objects[i].lib_type,
                              DbfsPath(_get_hashed_path(local_lib_objects[i].path)))>>]
            Absent(pair) == pair[2].path.absolute_path \notin entry.store
        IN  /\ upload_files = SelectSeq(pairs, Absent)
            /\ Len(queries) = Len(local_lib_objects)
            /\ \A i \in 1..Len(queries) : queries[i] = pairs[i][2].path.absolute_path
            /\ \A i \in 1..Len(puts) : puts[i].dst \notin entry.store

\* Two local references, the first present in the store and the second not:
\* the plan holds the second only and the upload loop has run.
C3_Witness ==
    /\ Planned
    /\ pc = "rewritten"
    /\ Len(local_lib_objects) = 2
    /\ remote_lib_objects[1].path \in entry.store
    /\ remote_lib_objects[2].path \notin entry.store
    /\ Len(upload_files) = 1
    /\ Len(puts) = 1

\* C2 (abort on upload failure): a failed put_file is the last one of the
\* call; the put_file calls before it succeeded, were made for the plan's
\* pairs in plan order and left their objects in the store; and the call has
\* failed with the upload error naming the failing pair's local path.
C2_AbortOnUploadFailure ==
    \A i \in 1..Len(puts) :
        ~puts[i].ok =>
            /\ i = Len(puts)
            /\ i <= Len(upload_files)
            /\ pc = "failed"
            /\ error = Raise("RuntimeError", "while uploading", upload_files[i][1].path)
            /\ \A j \in 1..(i - 1) :
                  /\ puts[j].ok
                  /\ puts[j].src = upload_files[j][1].path
                  /\ puts[j].dst = upload_files[j][2].path.absolute_path
                  /\ puts[j].dst \in store

\* The second upload of a plan of two pairs with different remote paths
\* fails after the first succeeded.
C2_Witness ==
    /\ op = "deploy"
    /\ pc = "failed"
    /\ Len(upload_files) = 2
    /\ Len(puts) = 2
    /\ puts[1].ok
    /\ ~puts[2].ok
    /\ puts[1].dst # puts[2].dst
    /\ puts[1].dst \in store
    /\ puts[2].dst \notin store


\* C1 (rewrite completeness): the body of a PUT the deploy in progress has
\* issued holds N + K libraries, N the local and K the pass-through
\* references of the specification it was given: the K pass-through
\* libraries unchanged, then for each local reference a library of the same
\* kind whose path is the remote path derived from the file it names,
\* whether or not that file was uploaded by this call.
C1_RewriteCompleteness ==
    \A r \in IssuedByCall :
        (op = "deploy" /\ requests[r].method = "PUT") =>
            LET locals   == SelectSeq(EntryObjects, IsLocalRef)
                passed   == SelectSeq(EntryObjects, IsPassThroughRef)
                N        == Len(locals)
                K        == Len(passed)
                attached == requests[r].data["libraries"]
            IN  /\ Len(attached) = N + K
                /\ \A i \in 1..K :
                      attached[i] = Library(passed[i].lib_type, passed[i].path)
                /\ \A i \in 1..N :
                      attached[K + i] =
                          Library(locals[i].lib_type,
                                  _get_hashed_path(LocalPathOf(locals[i])))
                /\ Len(puts) <= N

\* A submitted deploy of one local and one pass-through reference in which
\* nothing had to be uploaded (M = 0 < N).
C1_Witness ==
    /\ op = "deploy"
    /\ pc = "done"
    /\ IssuedByCall # {}
    /\ Len(SelectSeq(EntryObjects, IsLocalRef)) = 1
    /\ Len(SelectSeq(EntryObjects, IsPassThroughRef)) = 1
    /\ puts = <<>>

\* A configuration that yields credentials.
ValidProfile(cfg) == cfg.present /\ cfg.is_valid

\* C6 (missing submission target), as claimed: a deploy of a specification
\* without `id` that resolved valid credentials fails with the configuration
\* error of an unresolvable profile, and issues no PUT.
C6_MissingIdIsConfigurationError ==
    (/\ op = "deploy"
     /\ "id" \notin DOMAIN spec
     /\ pc \in { "done", "failed" }
     /\ \E cfg \in resolved : ValidProfile(cfg))
        => /\ pc = "failed"
           /\ error.type = "InvalidConfigurationError"
           /\ IssuedByCall = {}

\* The objects the put_file calls of the call in progress created.
Uploaded == { puts[i].dst : i \in { k \in 1..Len(puts) : puts[k].ok } }

\* C8 (failure leaves no submission behind): a call that failed before its
\* request was handed to the transport has issued no request, and the store
\* holds what it held when the call started plus the objects the call
\* uploaded; a call (deploy or delete) that resolved an invalid configuration
\* has failed with the configuration error.
C8_FailureLeavesNoSubmission ==
    /\ (pc = "failed" /\ error.type # "TransportError") =>
           /\ IssuedByCall = {}
           /\ store = entry.store \cup Uploaded
    /\ \A cfg \in resolved :
           ~ValidProfile(cfg) =>
               /\ pc = "failed"
               /\ error.type = "InvalidConfigurationError"
               /\ IssuedByCall = {}

\* A deploy that uploaded an object and then failed on an invalid
\* configuration.
C8_Witness ==
    /\ op = "deploy"
    /\ pc = "failed"
    /\ error.type = "InvalidConfigurationError"
    /\ \E cfg \in resolved : cfg.present /\ ~cfg.is_valid
    /\ Uploaded # {}
    /\ IssuedByCall = {}

\* C9 (retry after a failed upload): in a deploy that follows a deploy
\* aborted by an upload failure, the specification's libraries are those the
\* first call was given, every local reference gets the remote path the first
\* call derived, no put_file is issued for an object the first call uploaded
\* or for any object the store held when the retry started, and a submitted
\* body holds the libraries the first call would have attached.
C9_RetryAfterFailedUpload ==
    (op = "deploy" /\ prev.op = "deploy" /\ prev.error.msg = "while uploading") =>
        /\ entry.libraries = prev.libraries
        /\ Classified
        /\ pc # "partitioned" => Derived /\ remote_lib_objects = prev.remote
        /\ \A i \in 1..Len(puts) :
              /\ puts[i].dst \notin entry.store
              /\ \A j \in 1..Len(prev.puts) :
                    prev.puts[j].ok => puts[i].dst # prev.puts[j].dst
        /\ \A r \in IssuedByCall :
              requests[r].data["libraries"] =
                  convert_to_libraries(prev.rest \o prev.remote)

\* A retry that uploaded only the object the first call failed on, after the
\* first call had uploaded another, and was submitted.
C9_Witness ==
    /\ op = "deploy"
    /\ prev.op = "deploy"
    /\ prev.error.msg = "while uploading"
    /\ Len(prev.puts) = 2
    /\ pc = "done"
    /\ Len(puts) = 1
    /\ puts[1].ok
    /\ puts[1].dst = prev.puts[2].dst

\* C10 (no duplicate upload within one deploy), as claimed: put_file is never
\* called for a remote path that holds an object at the moment of the call.
C10_NoPutOnExistingObject ==
    \A i \in 1..Len(puts) : ~puts[i].existed

====
